---------------------------- MODULE Spec2Model ----------------------------
(***************************************************************************)
(* Model of KrakenBot (src/main.py): the trading cycle of KrakenBot.run    *)
(* with the gateway calls it makes (OHLC, Balance, AddOrder), the sizing   *)
(* arithmetic and the CSV audit file.                                      *)
(*                                                                         *)
(* Numbers.  The program computes with Python floats (binary floating      *)
(* point, round to nearest, ties to even).  A float is modelled as a       *)
(* record [s, m, e] of value s * m * 2^e with a MantBits-bit mantissa      *)
(* (2^(MantBits-1) <= m < 2^MantBits, or m = 0), and every arithmetic      *)
(* operation rounds its exact result to that format as the hardware does.  *)
(* CPython's mantissa has 53 bits; MantBits is smaller because TLC's       *)
(* integers have 32.  Decimal texts received from the gateway, and the     *)
(* numeric literals of the source, are rationals <<n, d>> converted by     *)
(* float().                                                                *)
(***************************************************************************)
EXTENDS Integers, Sequences, FiniteSets, TLC

\* ------------------------------------------------------------------ bounds
MantBits == 8
MaxCycles == 2
MaxTenths == 127

\* ------------------------------------------------- floating-point numbers
RECURSIVE Pow2(_)
Pow2(k) == IF k <= 0 THEN 1 ELSE 2 * Pow2(k - 1)

MinMant == Pow2(MantBits - 1)
MaxMant == Pow2(MantBits)

Zero == [s |-> 1, m |-> 0, e |-> 0]

\* n / d rounded to the nearest integer, ties to the even one (n >= 0, d > 0)
RoundHalfEven(n, d) ==
    LET q == n \div d
        r == n % d
    IN  IF 2 * r > d \/ (2 * r = d /\ q % 2 = 1) THEN q + 1 ELSE q

\* the float nearest to sgn * (n / d) * 2^e   (n >= 0, d > 0)
RECURSIVE Normalize(_, _, _, _)
Normalize(sgn, n, d, e) ==
    IF n = 0 THEN Zero
    ELSE IF n >= MaxMant * d THEN Normalize(sgn, n, 2 * d, e + 1)
    ELSE IF n < MinMant * d THEN Normalize(sgn, 2 * n, d, e - 1)
    ELSE LET m == RoundHalfEven(n, d)
         IN  IF m = MaxMant THEN [s |-> sgn, m |-> MinMant, e |-> e + 1]
                            ELSE [s |-> sgn, m |-> m, e |-> e]

\* float("n/d" written in decimal); also a numeric literal of the source
float(q) == Normalize(IF q[1] < 0 THEN -1 ELSE 1,
                      IF q[1] < 0 THEN -q[1] ELSE q[1], q[2], 0)

\* -x
FlNeg(x) == IF x.m = 0 THEN x ELSE [x EXCEPT !.s = -x.s]

\* abs(x)
FlAbs(x) == [x EXCEPT !.s = 1]

\* x < y on magnitudes (both non-negative, normalized)
MagLt(x, y) ==
    IF y.m = 0 THEN FALSE
    ELSE IF x.m = 0 THEN TRUE
    ELSE x.e < y.e \/ (x.e = y.e /\ x.m < y.m)

\* x < y
FlLt(x, y) ==
    IF x.s = 1 /\ y.s = 1 THEN MagLt(x, y)
    ELSE IF x.s = -1 /\ y.s = -1 THEN MagLt(FlAbs(y), FlAbs(x))
    ELSE x.s = -1 /\ (x.m # 0 \/ y.m # 0)

\* x > y, x <= y, x >= y
FlGt(x, y) == FlLt(y, x)
FlLe(x, y) == ~FlLt(y, x)
FlGe(x, y) == ~FlLt(x, y)

\* min(x, y) and max(x, y) of Python: the first argument unless the second
\* is strictly smaller (larger)
FlMin(x, y) == IF FlLt(y, x) THEN y ELSE x
FlMax(x, y) == IF FlGt(y, x) THEN y ELSE x

\* x + y: the exact sum, rounded.  An operand below a quarter of the other's
\* last mantissa bit cannot change the rounded result.
FlAdd(x, y) ==
    IF x.m = 0 THEN y
    ELSE IF y.m = 0 THEN x
    ELSE IF x.e - y.e >= MantBits + 2 THEN x
    ELSE IF y.e - x.e >= MantBits + 2 THEN y
    ELSE LET lo == IF x.e < y.e THEN x.e ELSE y.e
             n  == x.s * x.m * Pow2(x.e - lo) + y.s * y.m * Pow2(y.e - lo)
         IN  Normalize(IF n < 0 THEN -1 ELSE 1, IF n < 0 THEN -n ELSE n, 1, lo)

\* x - y
FlSub(x, y) == FlAdd(x, FlNeg(y))

\* x * y
FlMul(x, y) == Normalize(x.s * y.s, x.m * y.m, 1, x.e + y.e)

\* x / y  (y # 0)
FlDiv(x, y) == Normalize(x.s * y.s, x.m, y.m, x.e - y.e)

\* round(x, 1): the exact value of x rounded to a multiple of 1/10, ties to
\* even, and that decimal converted back to a float
Round1(x) ==
    IF x.m = 0 THEN x
    ELSE IF x.e >= 0 THEN x
    ELSE LET t == RoundHalfEven(10 * x.m, Pow2(-x.e))
         IN  Normalize(x.s, t, 10, 0)

\* ------------------------------------------------------ program constants
\* the significance threshold, the literal 15 of run
THRESHOLD == float(<<15, 1>>)

\* the dust threshold, the literal 0.0001 of run
DUST == float(<<1, 10000>>)

\* line 13: the pair traded
pair == "XXBTZUSD"

\* the window length; the constructor's default is 50
lookback == 2

\* Python's None where a float is expected (s = 0 is no float's sign)
None == [s |-> 0, m |-> 0, e |-> 0]

\* a row of the audit file, one field per column
Row(kind, now, predicted, close, diff, action, vol, spent, gained, usd, btc) ==
    [kind |-> kind, Timestamp |-> now, PredictedPrice |-> predicted,
     ClosePrice |-> close, Difference |-> diff, Action |-> action,
     Volume |-> vol, Expenditure |-> spent, Profit |-> gained,
     TotalUSDBalance |-> usd, TotalBTCBalance |-> btc]

\* the header row written by initialize_csv (the column names are the
\* field names of Row)
HEADER == Row("header", 0, None, None, None, "Action", None, None, None,
              None, None)

\* ------------------------------------------------------------ environment
\* closing prices and forecasts, as the decimal texts received
Closes == {<<100, 1>>, <<120, 1>>}
Forecasts == {<<85, 1>>, <<100, 1>>, <<115, 1>>, <<140, 1>>}

\* constructor arguments (max_usd_per_order, sell_percentage, stop_loss_pct);
\* the first is the default configuration
Configs ==
    { [max_usd_per_order |-> <<33, 1>>, sell_percentage |-> <<1, 4>>,
       stop_loss_pct |-> <<1, 10>>],
      [max_usd_per_order |-> <<20, 1>>, sell_percentage |-> <<3, 2>>,
       stop_loss_pct |-> <<1, 4>>] }

\* what the gateway answers to OHLC: an error, or bars (a bar is its close,
\* d[4]) of any length from 1 to lookback + 1
Histories == UNION { [1..n -> Closes] : n \in 1..(lookback + 1) }
OhlcResponses == { [error |-> TRUE, result |-> <<>>] }
                 \cup { [error |-> FALSE, result |-> h] : h \in Histories }

\* what the gateway answers to Balance: an error, or the two balances
BalanceResults ==
    { [ZUSD |-> <<50, 1>>,   XXBT |-> <<2, 1>>],
      [ZUSD |-> <<20, 1>>,   XXBT |-> <<2, 10000>>],
      [ZUSD |-> <<5, 1000>>, XXBT |-> <<0, 1>>] }
BalanceResponses == { [error |-> TRUE, result |-> [ZUSD |-> <<0, 1>>, XXBT |-> <<0, 1>>]] }
                    \cup { [error |-> FALSE, result |-> r] : r \in BalanceResults }

\* what the gateway answers to AddOrder: an error, or a result
AddOrderResponses == { [error |-> TRUE], [error |-> FALSE] }

\* the audit file found by the constructor: absent, or left by an earlier run
Absent == << Row("absent", 0, None, None, None, "", None, None, None, None,
                 None) >>
OldRow == Row("trade", 0, float(<<140, 1>>), float(<<100, 1>>),
              float(<<40, 1>>), "buy", float(<<1, 4>>), float(<<25, 1>>),
              Zero, float(<<25, 1>>), float(<<1, 4>>))
FilesFound == { Absent, <<HEADER, OldRow>> }

----------------------------------------------------------------------------
VARIABLES
    process,            \* the processes started so far (runs of the script)
    pc,                 \* where run is: the next call it makes
    cycle,              \* iterations of the loop started; also the clock
    max_usd_per_order, sell_percentage, stop_loss_pct,  \* self.<field>
    self_usd_balance, self_btc_balance,                 \* self.<field>
    csv_file,           \* the rows of the audit file
    api_calls,          \* the gateway calls made in this cycle so far
    data, predicted_price, last_close, difference,      \* locals of run
    usd_balance, btc_balance, volume, volume_to_sell,
    expenditure, profit, stop_price

vars == <<process, pc, cycle, max_usd_per_order, sell_percentage, stop_loss_pct,
          self_usd_balance, self_btc_balance, csv_file, api_calls, data,
          predicted_price, last_close, difference, usd_balance, btc_balance,
          volume, volume_to_sell, expenditure, profit, stop_price>>

\* what no step of run changes
config == <<process, max_usd_per_order, sell_percentage, stop_loss_pct>>
locals == <<data, predicted_price, last_close, difference, usd_balance,
            btc_balance, volume, volume_to_sell, expenditure, profit,
            stop_price>>

\* ----------------------------------------------------------- the methods
\* initialize_csv with a slip: the file opened with 'a', the header written
\* at every start
initialize_csv_Append(file) ==
    IF file = Absent THEN <<HEADER>> ELSE Append(file, HEADER)

\* initialize_csv: open(csv_file, 'x') creates the file and writes the
\* header; FileExistsError leaves an existing file alone
initialize_csv(file) == IF file = Absent THEN <<HEADER>> ELSE file

\* fetch_data: None (here <<>>) on an error, else the bars
fetch_data(ohlc) == IF ohlc.error THEN <<>> ELSE ohlc.result

\* data[-n:]
LastN(seq, n) ==
    IF Len(seq) <= n THEN seq ELSE SubSeq(seq, Len(seq) - n + 1, Len(seq))

\* get_balance with a slip: on an error, the balances last stored by
\* log_trade instead of (0, 0)
get_balance_Stale(balance) ==
    IF balance.error THEN <<self_usd_balance, self_btc_balance>>
    ELSE <<float(balance.result.ZUSD), float(balance.result.XXBT)>>

\* get_balance: (0, 0) on an error, else the two balances as floats
get_balance(balance) ==
    IF balance.error THEN <<Zero, Zero>>
    ELSE <<float(balance.result.ZUSD), float(balance.result.XXBT)>>

\* a gateway call as recorded in api_calls
OhlcCall(ok) ==
    [call |-> "OHLC", pair |-> pair, type |-> "", ordertype |-> "",
     volume |-> None, price |-> None, ok |-> ok]
BalanceCall(ok) ==
    [call |-> "Balance", pair |-> "", type |-> "", ordertype |-> "",
     volume |-> None, price |-> None, ok |-> ok]

\* place_order: the AddOrder request of a market order
place_order(order_type, vol, ok) ==
    [call |-> "AddOrder", pair |-> pair, type |-> order_type,
     ordertype |-> "market", volume |-> vol, price |-> None, ok |-> ok]

\* place_order with a slip: the result returned whatever the response
OrderResult_Unchecked(response) == TRUE

\* lines 62-65 and 115, 133: what place_order returns is truthy (a result)
\* unless the response carries an error (None)
OrderResult(response) == ~response.error

\* place_stop_loss with a slip: the order on the buy side
place_stop_loss_Buy(stop, vol, ok) ==
    [call |-> "AddOrder", pair |-> pair, type |-> "buy",
     ordertype |-> "stop-loss", volume |-> vol, price |-> Round1(stop),
     ok |-> ok]

\* place_stop_loss: the AddOrder request of a stop-loss order
place_stop_loss(stop, vol, ok) ==
    [call |-> "AddOrder", pair |-> pair, type |-> "sell",
     ordertype |-> "stop-loss", volume |-> vol, price |-> Round1(stop),
     ok |-> ok]

\* line 105 with a slip: difference >= 15
Significant_AtThreshold(diff) == FlGe(diff, THRESHOLD)

\* run, line 105: the forecast is significant
Significant(diff) == FlGt(diff, THRESHOLD)

\* lines 105-124 with a slip: the two comparisons exchanged
Signal_Reversed(predicted, close, diff) ==
    IF Significant(diff)
    THEN IF FlLt(predicted, close) THEN "BUY"
         ELSE IF FlGt(predicted, close) THEN "SELL"
         ELSE "HOLD"
    ELSE "HOLD"

\* run, lines 105-124: the branch taken after the forecast
Signal(predicted, close, diff) ==
    IF Significant(diff)
    THEN IF FlGt(predicted, close) THEN "BUY"
         ELSE IF FlLt(predicted, close) THEN "SELL"
         ELSE "HOLD"
    ELSE "HOLD"

\* run, lines 111-112: the volume of a buy
BuyVolume(usd, close, max_usd) ==
    LET max_volume == FlDiv(max_usd, close)
    IN  FlMin(max_volume, FlDiv(usd, close))

\* lines 128-129 with a slip: the portion not capped by the balance
SellVolume_Uncapped(btc, pct) ==
    LET portion_volume == FlMul(btc, pct)
    IN  FlMax(portion_volume, DUST)

\* lines 128-129 with a slip: max written for min
SellVolume_Max(btc, pct) ==
    LET portion_volume == FlMul(btc, pct)
    IN  FlMax(FlMax(portion_volume, btc), DUST)

\* run, lines 128-129: the volume of a sell
SellVolume(btc, pct) ==
    LET portion_volume == FlMul(btc, pct)
    IN  FlMax(FlMin(portion_volume, btc), DUST)

\* lines 113 and 130 with a slip: volume >= 0.0001
AboveDust_Inclusive(vol) == FlGe(vol, DUST)

\* run, lines 113 and 130: the volume is worth an order
AboveDust(vol) == FlGt(vol, DUST)

\* line 118 with a slip: the percentage added instead of subtracted
StopPrice_Above(close, pct) ==
    Round1(FlMul(close, FlAdd(float(<<1, 1>>), pct)))

\* run, line 118: the stop price of a buy
StopPrice(close, pct) ==
    Round1(FlMul(close, FlSub(float(<<1, 1>>), pct)))

\* log_trade, lines 82-89: the row appended to the file
TradeRow(now, predicted, close, action, vol, spent, gained, usd, btc) ==
    Row("trade", now, predicted, close, FlSub(predicted, close), action, vol,
        spent, gained, usd, btc)

\* --------------------------------------------------------- initial state
\* after KrakenBot(api_key, api_secret, ...), as bot.run() starts
Init ==
    /\ \E c \in Configs :
          /\ max_usd_per_order = float(c.max_usd_per_order)
          /\ sell_percentage = float(c.sell_percentage)
          /\ stop_loss_pct = float(c.stop_loss_pct)
    /\ process = 1
    /\ self_usd_balance = Zero
    /\ self_btc_balance = Zero
    /\ \E f \in FilesFound : csv_file = initialize_csv(f)
    /\ pc = "fetch_data"
    /\ cycle = 1
    /\ api_calls = <<>>
    /\ data = <<>>
    /\ predicted_price = None
    /\ last_close = None
    /\ difference = None
    /\ usd_balance = None
    /\ btc_balance = None
    /\ volume = None
    /\ volume_to_sell = None
    /\ expenditure = None
    /\ profit = None
    /\ stop_price = None

\* ---------------------------------------------------------------- run
\* lines 93-98: fetch_data; without data run returns, else the window is cut
FetchData ==
    /\ pc = "fetch_data"
    /\ \E ohlc \in OhlcResponses :
          /\ api_calls' = Append(api_calls, OhlcCall(~ohlc.error))
          /\ IF fetch_data(ohlc) = <<>>
             THEN /\ pc' = "exited"
                  /\ data' = data
             ELSE /\ pc' = "calculate_arima"
                  /\ data' = LastN(fetch_data(ohlc), lookback)
    /\ UNCHANGED <<cycle, config, self_usd_balance, self_btc_balance,
                   csv_file, predicted_price, last_close, difference,
                   usd_balance, btc_balance, volume, volume_to_sell,
                   expenditure, profit, stop_price>>

\* lines 99-101: the forecast (whatever the Forecaster returns for the
\* window), the last close and their distance
CalculateArima ==
    /\ pc = "calculate_arima"
    /\ \E forecast \in Forecasts :
          /\ predicted_price' = float(forecast)
          /\ last_close' = float(data[Len(data)])
          /\ difference' = FlAbs(FlSub(predicted_price', last_close'))
    /\ pc' = "decide"
    /\ UNCHANGED <<cycle, config, self_usd_balance, self_btc_balance,
                   csv_file, api_calls, data, usd_balance, btc_balance,
                   volume, volume_to_sell, expenditure, profit, stop_price>>

\* lines 105-107 and 124: the branch
Decide ==
    /\ pc = "decide"
    /\ pc' = CASE Signal(predicted_price, last_close, difference) = "BUY"
                    -> "buy_get_balance"
              [] Signal(predicted_price, last_close, difference) = "SELL"
                    -> "sell_get_balance"
              [] OTHER -> "sleep"
    /\ UNCHANGED <<cycle, config, self_usd_balance, self_btc_balance,
                   csv_file, api_calls, locals>>

\* lines 108-113: the quote balance and the volume of the buy
BuyGetBalance ==
    /\ pc = "buy_get_balance"
    /\ \E balance \in BalanceResponses :
          /\ api_calls' = Append(api_calls, BalanceCall(~balance.error))
          /\ usd_balance' = get_balance(balance)[1]
    /\ IF FlGt(usd_balance', Zero)
       THEN /\ volume' = BuyVolume(usd_balance', last_close, max_usd_per_order)
            /\ pc' = IF AboveDust(volume') THEN "buy_place_order" ELSE "sleep"
       ELSE /\ volume' = volume
            /\ pc' = "sleep"
    /\ UNCHANGED <<cycle, config, self_usd_balance, self_btc_balance,
                   csv_file, data, predicted_price, last_close, difference,
                   btc_balance, volume_to_sell, expenditure, profit,
                   stop_price>>

\* lines 114-118: the market buy; once accepted, its cost and stop price
BuyPlaceOrder ==
    /\ pc = "buy_place_order"
    /\ \E response \in AddOrderResponses :
          /\ api_calls' = Append(api_calls,
                                 place_order("buy", volume, ~response.error))
          /\ IF OrderResult(response)
             THEN /\ expenditure' = FlMul(volume, last_close)
                  /\ stop_price' = StopPrice(last_close, stop_loss_pct)
                  /\ pc' = "place_stop_loss"
             ELSE /\ UNCHANGED <<expenditure, stop_price>>
                  /\ pc' = "sleep"
    /\ UNCHANGED <<cycle, config, self_usd_balance, self_btc_balance,
                   csv_file, data, predicted_price, last_close, difference,
                   usd_balance, btc_balance, volume, volume_to_sell, profit>>

\* lines 119-121 with a slip: a rejected stop-loss order is submitted again
PlaceStopLoss_Retry ==
    /\ pc = "place_stop_loss"
    /\ \E response \in AddOrderResponses :
          /\ api_calls' = Append(api_calls,
                                 place_stop_loss(stop_price, volume,
                                                 ~response.error))
          /\ pc' = IF response.error /\ Len(api_calls) < 5
                   THEN "place_stop_loss" ELSE "log_buy"
    /\ UNCHANGED <<cycle, config, self_usd_balance, self_btc_balance,
                   csv_file, locals>>

\* lines 119-121: the stop-loss order; its result only changes what is printed
PlaceStopLoss ==
    /\ pc = "place_stop_loss"
    /\ \E response \in AddOrderResponses :
          api_calls' = Append(api_calls,
                              place_stop_loss(stop_price, volume,
                                              ~response.error))
    /\ pc' = "log_buy"
    /\ UNCHANGED <<cycle, config, self_usd_balance, self_btc_balance,
                   csv_file, locals>>

\* log_trade with a slip: the file opened with 'w', the row replacing what
\* was there
log_trade_Overwrite(predicted, close, action, vol, spent, gained) ==
    \E balance \in BalanceResponses, written \in BOOLEAN :
        /\ api_calls' = Append(api_calls, BalanceCall(~balance.error))
        /\ self_usd_balance' = get_balance(balance)[1]
        /\ self_btc_balance' = get_balance(balance)[2]
        /\ IF written
           THEN /\ csv_file' = << TradeRow(cycle, predicted, close, action,
                                           vol, spent, gained,
                                           self_usd_balance',
                                           self_btc_balance') >>
                /\ pc' = "sleep"
           ELSE /\ csv_file' = csv_file
                /\ pc' = "crashed"

\* log_trade, lines 82-89, called with the arguments given: the balances
\* are fetched and stored, then the row is appended.  open() or the write
\* may raise OSError, which neither log_trade nor run catches: the
\* exception leaves run and ends the process.
log_trade(predicted, close, action, vol, spent, gained) ==
    \E balance \in BalanceResponses, written \in BOOLEAN :
        /\ api_calls' = Append(api_calls, BalanceCall(~balance.error))
        /\ self_usd_balance' = get_balance(balance)[1]
        /\ self_btc_balance' = get_balance(balance)[2]
        /\ IF written
           THEN /\ csv_file' = Append(csv_file,
                                       TradeRow(cycle, predicted, close,
                                                action, vol, spent, gained,
                                                self_usd_balance',
                                                self_btc_balance'))
                /\ pc' = "sleep"
           ELSE /\ csv_file' = csv_file
                /\ pc' = "crashed"

\* line 122: the record of the buy
LogBuy ==
    /\ pc = "log_buy"
    /\ log_trade(predicted_price, last_close, "buy", volume, expenditure,
                 Zero)
    /\ UNCHANGED <<cycle, config, locals>>

\* lines 125-130: the base balance and the volume of the sell
SellGetBalance ==
    /\ pc = "sell_get_balance"
    /\ \E balance \in BalanceResponses :
          /\ api_calls' = Append(api_calls, BalanceCall(~balance.error))
          /\ btc_balance' = get_balance(balance)[2]
    /\ IF FlGt(btc_balance', DUST)
       THEN /\ volume_to_sell' = SellVolume(btc_balance', sell_percentage)
            /\ pc' = IF AboveDust(volume_to_sell') THEN "sell_place_order"
                                                    ELSE "sleep"
       ELSE /\ volume_to_sell' = volume_to_sell
            /\ pc' = "sleep"
    /\ UNCHANGED <<cycle, config, self_usd_balance, self_btc_balance,
                   csv_file, data, predicted_price, last_close, difference,
                   usd_balance, volume, expenditure, profit, stop_price>>

\* lines 132-137 with a slip: a rejected market sell is submitted again
SellPlaceOrder_Retry ==
    /\ pc = "sell_place_order"
    /\ \E response \in AddOrderResponses :
          /\ api_calls' = Append(api_calls,
                                 place_order("sell", volume_to_sell,
                                             ~response.error))
          /\ IF OrderResult(response)
             THEN /\ profit' = FlMul(volume_to_sell, last_close)
                  /\ pc' = "log_sell"
             ELSE /\ profit' = profit
                  /\ pc' = IF Len(api_calls) < 4 THEN "sell_place_order"
                                                 ELSE "sleep"
    /\ UNCHANGED <<cycle, config, self_usd_balance, self_btc_balance,
                   csv_file, data, predicted_price, last_close, difference,
                   usd_balance, btc_balance, volume, volume_to_sell,
                   expenditure, stop_price>>

\* lines 132-134 and 137: the market sell; once accepted, its proceeds
SellPlaceOrder ==
    /\ pc = "sell_place_order"
    /\ \E response \in AddOrderResponses :
          /\ api_calls' = Append(api_calls,
                                 place_order("sell", volume_to_sell,
                                             ~response.error))
          /\ IF OrderResult(response)
             THEN /\ profit' = FlMul(volume_to_sell, last_close)
                  /\ pc' = "log_sell"
             ELSE /\ profit' = profit
                  /\ pc' = "sleep"
    /\ UNCHANGED <<cycle, config, self_usd_balance, self_btc_balance,
                   csv_file, data, predicted_price, last_close, difference,
                   usd_balance, btc_balance, volume, volume_to_sell,
                   expenditure, stop_price>>

\* line 135 with a slip: the proceeds passed as the expenditure
LogSell_Swapped ==
    /\ pc = "log_sell"
    /\ log_trade(predicted_price, last_close, "sell", volume_to_sell, profit,
                 Zero)
    /\ UNCHANGED <<cycle, config, locals>>

\* line 135: the record of the sell
LogSell ==
    /\ pc = "log_sell"
    /\ log_trade(predicted_price, last_close, "sell", volume_to_sell, Zero,
                 profit)
    /\ UNCHANGED <<cycle, config, locals>>

\* lines 139-141 and 92: the sleep, and the loop starts over.  Every local
\* of run is assigned again before it is read, so the old values are
\* dropped here; api_calls starts over with the cycle.
Sleep ==
    /\ pc = "sleep"
    /\ cycle < MaxCycles
    /\ cycle' = cycle + 1
    /\ pc' = "fetch_data"
    /\ api_calls' = <<>>
    /\ data' = <<>>
    /\ predicted_price' = None
    /\ last_close' = None
    /\ difference' = None
    /\ usd_balance' = None
    /\ btc_balance' = None
    /\ volume' = None
    /\ volume_to_sell' = None
    /\ expenditure' = None
    /\ profit' = None
    /\ stop_price' = None
    /\ UNCHANGED <<config, self_usd_balance, self_btc_balance, csv_file>>

Next ==
    \/ FetchData
    \/ CalculateArima
    \/ Decide
    \/ BuyGetBalance
    \/ BuyPlaceOrder
    \/ PlaceStopLoss
    \/ LogBuy
    \/ SellGetBalance
    \/ SellPlaceOrder
    \/ LogSell
    \/ Sleep

Spec == Init /\ [][Next]_vars

----------------------------------------------------------------------------
\* ------------------------------------------- what the properties speak of
\* the positions of api_calls holding a request of the given kind
Calls(call) == { i \in 1..Len(api_calls) : api_calls[i].call = call }
MarketOrders(type) ==
    { i \in Calls("AddOrder") : /\ api_calls[i].ordertype = "market"
                                /\ api_calls[i].type = type }
StopLossOrders ==
    { i \in Calls("AddOrder") : api_calls[i].ordertype = "stop-loss" }
AcceptedPrimary ==
    { i \in MarketOrders("buy") \cup MarketOrders("sell") : api_calls[i].ok }

\* the rows appended to the file in this cycle
RowsOfCycle ==
    { i \in 1..Len(csv_file) : /\ csv_file[i].kind = "trade"
                               /\ csv_file[i].Timestamp = cycle }

\* the cycle is over: run sleeps, has returned or has died
CycleOver == pc \in {"sleep", "exited", "crashed"}

\* the forecast of this cycle has been made
Forecasted == predicted_price # None

\* the integer x / 2^lo, for a float x that is a multiple of 2^lo
Scaled(x, lo) == x.s * x.m * Pow2(x.e - lo)
MinExp(x, y, z) ==
    LET xy == IF x.e < y.e THEN x.e ELSE y.e
    IN  IF z.e < xy THEN z.e ELSE xy

\* |x - y| <= z and x < y over the reals, computed on integers
RealAbsDiffLeq(x, y, z) ==
    LET lo == MinExp(x, y, z)
        d  == Scaled(x, lo) - Scaled(y, lo)
    IN  (IF d < 0 THEN -d ELSE d) <= Scaled(z, lo)
RealLt(x, y) ==
    LET lo == MinExp(x, y, y) IN Scaled(x, lo) < Scaled(y, lo)

\* a * 2^ea <= b * 2^eb over the reals, for integers 0 <= a, b < 2^24
RECURSIVE ScaledLeq(_, _, _, _)
ScaledLeq(a, ea, b, eb) ==
    IF a = 0 THEN TRUE
    ELSE IF b = 0 THEN FALSE
    ELSE IF ea = eb THEN a <= b
    ELSE IF ea > eb
         THEN IF a >= Pow2(24) THEN FALSE ELSE ScaledLeq(2 * a, ea - 1, b, eb)
         ELSE IF b >= Pow2(24) THEN TRUE ELSE ScaledLeq(a, ea, 2 * b, eb - 1)

\* x * y <= z over the reals, for non-negative floats
RealProductLeq(x, y, z) == ScaledLeq(x.m * y.m, x.e + y.e, z.m, z.e)

----------------------------------------------------------------------------
C2_HoldWithinThreshold ==
    (Forecasted /\ RealAbsDiffLeq(predicted_price, last_close, THRESHOLD))
        => /\ pc \in {"decide", "sleep"}
           /\ Calls("AddOrder") = {}
           /\ Calls("Balance") = {}
           /\ RowsOfCycle = {}

\* C2 witness: a forecast below the last close by exactly the threshold,
\* held
C2_Witness ==
    /\ pc = "sleep"
    /\ Forecasted
    /\ RealLt(predicted_price, last_close)
    /\ difference = THRESHOLD
    /\ Calls("AddOrder") = {}

\* the flow the cycle has entered, by what run has done so far
InBuyFlow ==
    \/ pc \in {"buy_get_balance", "buy_place_order", "place_stop_loss",
               "log_buy"}
    \/ usd_balance # None
InSellFlow ==
    \/ pc \in {"sell_get_balance", "sell_place_order", "log_sell"}
    \/ btc_balance # None

\* C3: when |forecast - last_close| > 15 (over the reals), the cycle, once
\* decided, is in the buy flow exactly when forecast > last_close and in the
\* sell flow exactly when forecast < last_close; and no market buy is ever
\* submitted with forecast <= last_close, no market sell with
\* forecast >= last_close.
C3_DirectionSelectsFlow ==
    /\ (/\ Forecasted
        /\ pc # "decide"
        /\ ~RealAbsDiffLeq(predicted_price, last_close, THRESHOLD))
          => /\ InBuyFlow <=> RealLt(last_close, predicted_price)
             /\ InSellFlow <=> RealLt(predicted_price, last_close)
    /\ MarketOrders("buy") # {} => RealLt(last_close, predicted_price)
    /\ MarketOrders("sell") # {} => RealLt(predicted_price, last_close)

\* C3 witness: a market sell submitted on a forecast more than 15 below the
\* last close
C3_Witness ==
    /\ MarketOrders("sell") # {}
    /\ RealLt(predicted_price, last_close)
    /\ ~RealAbsDiffLeq(predicted_price, last_close, THRESHOLD)

\* C4: every market buy submitted has volume * last_close <=
\* max_usd_per_order and volume * last_close <= usd_balance (that is,
\* volume <= usd_balance / last_close), over the reals, usd_balance being
\* the quote balance fetched in this cycle.
C4_BuyWithinCapAndBalance ==
    \A i \in MarketOrders("buy") :
        /\ RealProductLeq(api_calls[i].volume, last_close, max_usd_per_order)
        /\ RealProductLeq(api_calls[i].volume, last_close, usd_balance)

\* C5: every market sell submitted has a volume of at most the base balance
\* fetched in this cycle; and with that balance above the dust threshold,
\* the sizing yields a volume of at least the dust threshold, and a sell is
\* submitted with that volume or not at all.
C5_SellWithinBalance ==
    /\ \A i \in MarketOrders("sell") :
           /\ FlLe(api_calls[i].volume, btc_balance)
           /\ api_calls[i].volume = volume_to_sell
    /\ (btc_balance # None /\ FlGt(btc_balance, DUST))
          => /\ volume_to_sell # None
             /\ FlGe(volume_to_sell, DUST)
             /\ FlLe(volume_to_sell, btc_balance)

\* C5 witness: a market sell submitted with sell_percentage above 1, where
\* the volume is the whole balance
C5_Witness ==
    /\ MarketOrders("sell") # {}
    /\ FlGt(sell_percentage, float(<<1, 1>>))
    /\ volume_to_sell = btc_balance

\* C6: every order handed to the gateway (market buy, market sell and
\* stop-loss) has a volume strictly above the dust threshold; and once the
\* sizing of the cycle has yielded a volume <= 0.0001, or the buy flow has
\* found a quote balance <= 0, the cycle submits no order at all.
C6_NoDustOrders ==
    /\ \A i \in Calls("AddOrder") : FlGt(api_calls[i].volume, DUST)
    /\ (\/ (volume # None /\ FlLe(volume, DUST))
        \/ (volume_to_sell # None /\ FlLe(volume_to_sell, DUST))
        \/ (usd_balance # None /\ FlLe(usd_balance, Zero)))
          => Calls("AddOrder") = {} /\ pc = "sleep"

\* C6 witness: a sell sized at exactly the dust threshold, suppressed
C6_Witness ==
    /\ pc = "sleep"
    /\ volume_to_sell = DUST
    /\ Calls("AddOrder") = {}

\* C7: the process has halted if and only if the price-history fetch of
\* the cycle failed, and then nothing else happened in that cycle: no
\* forecast, no balance query, no order, no row.
C7_HaltsOnlyOnFetchFailure ==
    /\ pc \in {"exited", "crashed"}
          <=> (\E i \in Calls("OHLC") : ~api_calls[i].ok)
    /\ (\E i \in Calls("OHLC") : ~api_calls[i].ok)
          => /\ Len(api_calls) = 1
             /\ ~Forecasted
             /\ RowsOfCycle = {}

\* C8: when the balance query made for the sizing fails, the balance is
\* taken as zero and the cycle goes to the sleep with no order submitted
\* and no row written, in the buy flow and in the sell flow.
C8_BalanceFailureFailsClosed ==
    (Len(api_calls) >= 2 /\ ~api_calls[2].ok)
        => /\ pc = "sleep"
           /\ Len(api_calls) = 2
           /\ RowsOfCycle = {}
           /\ InBuyFlow => usd_balance = Zero /\ volume = None
           /\ InSellFlow => btc_balance = Zero /\ volume_to_sell = None

\* C8 witness: a sell flow whose balance query failed, asleep; another
\* cycle before it had traded
C8_Witness ==
    /\ pc = "sleep"
    /\ InSellFlow
    /\ Len(api_calls) = 2 /\ ~api_calls[2].ok
    /\ cycle > 1 /\ FlGt(self_btc_balance, DUST)

\* C9: a stop-loss order is submitted only right after an accepted market
\* buy of the same cycle; every accepted market buy is followed by exactly
\* one stop-loss submission before the row of the cycle is written; no
\* stop-loss order is submitted in a sell, HOLD, suppressed or rejected-buy
\* cycle.
C9_StopLossFollowsAcceptedBuy ==
    /\ \A i \in StopLossOrders :
           /\ i - 1 \in MarketOrders("buy")
           /\ api_calls[i - 1].ok
    /\ Cardinality(StopLossOrders) <= 1
    /\ \A i \in MarketOrders("buy") :
           api_calls[i].ok
             => \/ pc = "place_stop_loss" /\ i = Len(api_calls)
                                         /\ RowsOfCycle = {}
                \/ i + 1 \in StopLossOrders
    /\ (pc = "log_buy" \/ RowsOfCycle # {}) /\ MarketOrders("buy") # {}
          => Cardinality(StopLossOrders) = 1
    /\ (\/ InSellFlow
        \/ ~(\E i \in MarketOrders("buy") : api_calls[i].ok) /\ CycleOver)
          => StopLossOrders = {}

\* C9 witness: the row of a buy is written and exactly one stop-loss order
\* (here an accepted one) went out between the buy and the row
C9_Witness ==
    /\ \E i \in RowsOfCycle : csv_file[i].Action = "buy"
    /\ \E i \in StopLossOrders : api_calls[i].ok
    /\ Cardinality(StopLossOrders) = 1

\* C10: a failure to append the row is recovered: from log_trade run always
\* goes on to the sleep.
C10_WriteErrorRecovered ==
    [][(pc \in {"log_buy", "log_sell"}) => (pc' = "sleep")]_vars

----------------------------------------------------------------------------
\* ------------------------------------------------- the buy on any price
\* The buy flow from its market order on, for last closes of 0.1 to
\* MaxTenths / 10 (where the floats of the model are finer than a tenth, as
\* CPython's are at any market price): run has fetched a window ending in
\* that close, the forecast is 16 above it and the quote balance is 50.
CloseTexts == { <<k, 10>> : k \in 1..MaxTenths }

InitBuy ==
    /\ \E c \in Configs :
          /\ max_usd_per_order = float(c.max_usd_per_order)
          /\ sell_percentage = float(c.sell_percentage)
          /\ stop_loss_pct = float(c.stop_loss_pct)
    /\ process = 1
    /\ self_usd_balance = Zero
    /\ self_btc_balance = Zero
    /\ csv_file = initialize_csv(Absent)
    /\ pc = "buy_place_order"
    /\ cycle = 1
    /\ api_calls = <<OhlcCall(TRUE), BalanceCall(TRUE)>>
    /\ \E c \in CloseTexts :
          /\ data = <<c>>
          /\ last_close = float(c)
          /\ predicted_price = float(<<c[1] + 160, 10>>)
    /\ difference = FlAbs(FlSub(predicted_price, last_close))
    /\ Signal(predicted_price, last_close, difference) = "BUY"
    /\ usd_balance = float(<<50, 1>>)
    /\ btc_balance = None
    /\ volume = BuyVolume(usd_balance, last_close, max_usd_per_order)
    /\ AboveDust(volume)
    /\ volume_to_sell = None
    /\ expenditure = None
    /\ profit = None
    /\ stop_price = None

NextBuy ==
    \/ BuyPlaceOrder
    \/ PlaceStopLoss
    \/ LogBuy

SpecBuy == InitBuy /\ [][NextBuy]_vars

\* last_close * (1 - stop_loss_pct) over the reals, rounded to one decimal
\* (ties to even), as a float; for 0 < stop_loss_pct < 1
RealStopPrice(close, pct) ==
    LET n  == 10 * close.m * (Pow2(-pct.e) - pct.m)
        ex == close.e + pct.e
    IN  IF ex >= 0 THEN Normalize(1, n * Pow2(ex), 10, 0)
        ELSE Normalize(1, RoundHalfEven(n, Pow2(-ex)), 10, 0)

\* C11, as stated: the stop price of every stop-loss order is
\* last_close * (1 - stop_loss_pct) rounded to one decimal.
C11_StopPriceExact ==
    \A i \in StopLossOrders :
        api_calls[i].price = RealStopPrice(last_close, stop_loss_pct)

\* C11, amended: the stop price of every stop-loss order is the float
\* product last_close * (1 - stop_loss_pct), the difference and the product
\* each rounded as floats are, rounded to one decimal by round(); and the
\* second rounding, inside place_stop_loss, leaves the stop price computed
\* by run unchanged.
C11_StopPriceFloat ==
    /\ stop_price # None
          => stop_price = Round1(FlMul(last_close,
                                       FlSub(float(<<1, 1>>), stop_loss_pct)))
    /\ \A i \in StopLossOrders : api_calls[i].price = stop_price

\* C11 witness: a stop-loss order whose price is not the unrounded product
\* (round() has acted) and not the exact product rounded either
C11_Witness ==
    \E i \in StopLossOrders :
        /\ api_calls[i].price
             # FlMul(last_close, FlSub(float(<<1, 1>>), stop_loss_pct))
        /\ api_calls[i].price # RealStopPrice(last_close, stop_loss_pct)

----------------------------------------------------------------------------
\* ------------------------------------------------ the script run again
\* lines 144-148 and 12-22, once the process has ended: the script is
\* started again with the same arguments, on the file as it was left.  The
\* constructor resets the balances and calls initialize_csv; the clock has
\* moved on.
Restart ==
    /\ pc \in {"exited", "crashed"}
    /\ cycle < MaxCycles
    /\ process' = process + 1
    /\ cycle' = cycle + 1
    /\ self_usd_balance' = Zero
    /\ self_btc_balance' = Zero
    /\ csv_file' = initialize_csv(csv_file)
    /\ pc' = "fetch_data"
    /\ api_calls' = <<>>
    /\ data' = <<>>
    /\ predicted_price' = None
    /\ last_close' = None
    /\ difference' = None
    /\ usd_balance' = None
    /\ btc_balance' = None
    /\ volume' = None
    /\ volume_to_sell' = None
    /\ expenditure' = None
    /\ profit' = None
    /\ stop_price' = None
    /\ UNCHANGED <<max_usd_per_order, sell_percentage, stop_loss_pct>>

NextRestart ==
    \/ Next
    \/ Restart

SpecRestart == Init /\ [][NextRestart]_vars

\* the header rows of the file
HeaderRows == { i \in 1..Len(csv_file) : csv_file[i].kind = "header" }

\* C12: initialization on an absent file has created it with exactly one
\* header row; initialization run again on the existing file (at a later
\* start of the script) leaves its contents unchanged, so the file always
\* has exactly one header row, the first, and keeps its rows.
C12_InitializeIdempotent ==
    /\ [](HeaderRows = {1} /\ csv_file[1] = HEADER)
    /\ [][process' # process => csv_file' = csv_file]_vars

\* C12 witness: a second process runs on the file an earlier run left, with
\* its one header and its old row
C12_Witness ==
    /\ process > 1
    /\ csv_file = <<HEADER, OldRow>>

\* C13: the file is append-only: every step, of a cycle or of an
\* initialization, leaves the rows as they are or adds exactly one row after
\* them, so the earlier contents are always a prefix of the later ones.
C13_AppendOnly ==
    [][\/ csv_file' = csv_file
       \/ /\ Len(csv_file') = Len(csv_file) + 1
          /\ SubSeq(csv_file', 1, Len(csv_file)) = csv_file]_vars

\* C13 witness: after two initializations, a row of this run follows the
\* row of an earlier run
C13_Witness ==
    /\ process > 1
    /\ Len(csv_file) = 3
    /\ csv_file[2] = OldRow
    /\ csv_file[3].Timestamp = cycle

----------------------------------------------------------------------------
\* C14: a cycle whose fetch succeeded ends asleep, whichever branch it
\* took (no step of it ends the process), and run fetches again only from
\* the sleep: one sleep between two fetches.
C14_EveryCycleSleeps ==
    [][/\ (api_calls # <<>> /\ api_calls[1].ok)
            => pc' \notin {"exited", "crashed"}
       /\ pc' = "fetch_data" => pc = "sleep"]_vars

\* C15: no retry within a cycle: at most one market order and at most one
\* stop-loss order are submitted in a cycle; a rejected market order is the
\* last call of its cycle, and a rejected stop-loss order is followed by no
\* order.
C15_NoRetry ==
    /\ Cardinality(MarketOrders("buy") \cup MarketOrders("sell")) <= 1
    /\ Cardinality(StopLossOrders) <= 1
    /\ \A i \in MarketOrders("buy") \cup MarketOrders("sell") :
           ~api_calls[i].ok => i = Len(api_calls) /\ pc = "sleep"
    /\ \A i \in StopLossOrders :
           \A j \in Calls("AddOrder") : j <= i

\* C15 witness: the market sell of the cycle was rejected, and run sleeps
\* with that one order submitted
C15_Witness ==
    /\ pc = "sleep"
    /\ \E i \in MarketOrders("sell") : ~api_calls[i].ok
    /\ Cardinality(Calls("AddOrder")) = 1

\* C16: the window handed to calculate_arima has exactly lookback prices,
\* however many bars the gateway returned.
C16_WindowHasLookbackPrices ==
    pc = "calculate_arima" => Len(data) = lookback

\* C17: the Difference of every row of the cycle is the difference the
\* cycle was classified with, |predicted - last_close|, a non-negative
\* number, in buy rows and in sell rows.
C17_RowCarriesAbsoluteDifference ==
    \A i \in RowsOfCycle :
        /\ csv_file[i].Difference = difference
        /\ FlGe(csv_file[i].Difference, Zero)

----------------------------------------------------------------------------
\* ------------------------------------------------ the sell on any balance
\* The sell flow from its market order on, for base balances of 0.001 to
\* MaxTenths / 1000 and sell percentages up to the float next below 1: run
\* has fetched a close of 100, the forecast is 80, the balance was read and
\* the volume computed from it (lines 125-130).
BaseTexts == { <<k, 1000>> : k \in 1..MaxTenths }

SellPercentages == { <<1, 4>>, <<1, 2>>, <<9, 10>>, <<255, 256>> }

InitSell ==
    /\ max_usd_per_order = float(<<33, 1>>)
    /\ stop_loss_pct = float(<<1, 10>>)
    /\ \E p \in SellPercentages : sell_percentage = float(p)
    /\ process = 1
    /\ self_usd_balance = Zero
    /\ self_btc_balance = Zero
    /\ csv_file = initialize_csv(Absent)
    /\ pc = "sell_place_order"
    /\ cycle = 1
    /\ api_calls = <<OhlcCall(TRUE), BalanceCall(TRUE)>>
    /\ data = << <<100, 1>> >>
    /\ last_close = float(<<100, 1>>)
    /\ predicted_price = float(<<80, 1>>)
    /\ difference = FlAbs(FlSub(predicted_price, last_close))
    /\ Signal(predicted_price, last_close, difference) = "SELL"
    /\ usd_balance = None
    /\ \E b \in BaseTexts : btc_balance = float(b)
    /\ FlGt(btc_balance, DUST)
    /\ volume_to_sell = SellVolume(btc_balance, sell_percentage)
    /\ AboveDust(volume_to_sell)
    /\ volume = None
    /\ expenditure = None
    /\ profit = None
    /\ stop_price = None

NextSell ==
    \/ SellPlaceOrder
    \/ LogSell

SpecSell == InitSell /\ [][NextSell]_vars

\* C18: with 0 < sell_percentage < 1, the volume of every market sell is
\* strictly below the base balance it was computed from.
C18_SellBelowBalance ==
    (FlGt(sell_percentage, Zero) /\ FlLt(sell_percentage, float(<<1, 1>>)))
        => \A i \in MarketOrders("sell") :
               FlLt(api_calls[i].volume, btc_balance)

\* C18 witness: a market sell accepted with the largest percentage below 1,
\* its volume a rounded product
C18_Witness ==
    /\ sell_percentage = float(<<255, 256>>)
    /\ \E i \in MarketOrders("sell") :
          /\ api_calls[i].ok
          /\ api_calls[i].volume = FlMul(btc_balance, sell_percentage)
          /\ FlGt(api_calls[i].volume, float(<<1, 10>>))

\* C19: every row of the cycle carries the cycle's values: its action is
\* that of the accepted market order and its volume the one submitted; a
\* buy row has expenditure = volume * last_close and profit 0, a sell row
\* expenditure 0 and profit = volume * last_close; its balances are those
\* get_balance returned (zeros when the query failed) for a Balance query
\* made after every order of the cycle.
C19_RowCarriesCycleValues ==
    \A i \in RowsOfCycle :
        LET row == csv_file[i]
            last == Len(api_calls)
        IN  /\ row.Action \in {"buy", "sell"}
            /\ row.PredictedPrice = predicted_price
            /\ row.ClosePrice = last_close
            /\ \E k \in MarketOrders(row.Action) :
                   /\ api_calls[k].ok
                   /\ row.Volume = api_calls[k].volume
            /\ row.Action = "buy" =>
                   /\ row.Expenditure = FlMul(row.Volume, last_close)
                   /\ row.Profit = Zero
            /\ row.Action = "sell" =>
                   /\ row.Expenditure = Zero
                   /\ row.Profit = FlMul(row.Volume, last_close)
            /\ last \in Calls("Balance")
            /\ \A j \in Calls("AddOrder") : j < last
            /\ row.TotalUSDBalance = self_usd_balance
            /\ row.TotalBTCBalance = self_btc_balance
            /\ ~api_calls[last].ok =>
                   row.TotalUSDBalance = Zero /\ row.TotalBTCBalance = Zero

\* C19 witnesses: a sell row and a buy row written, with proceeds or
\* expenditure and the balances of a query that succeeded
C19_Witness ==
    /\ pc = "sleep"
    /\ \E i \in RowsOfCycle :
          /\ csv_file[i].Action = "sell"
          /\ csv_file[i].Profit = FlMul(volume_to_sell, last_close)
          /\ csv_file[i].Profit # Zero
          /\ csv_file[i].TotalBTCBalance = float(<<2, 1>>)
          /\ api_calls[Len(api_calls)].ok

\* C20: every stop-loss order of a cycle carries the volume of the cycle's
\* market buy, is on the sell side and on the pair of that buy.
C20_StopLossMirrorsBuy ==
    \A i \in StopLossOrders :
        /\ api_calls[i].type = "sell"
        /\ \E k \in MarketOrders("buy") :
               /\ k < i
               /\ api_calls[i].volume = api_calls[k].volume
               /\ api_calls[i].pair = api_calls[k].pair

\* C20 witness: a stop-loss order for a buy that the balance, not the cap,
\* sized
C20_Witness ==
    \E i \in StopLossOrders :
        /\ api_calls[i].volume = FlDiv(usd_balance, last_close)
        /\ api_calls[i].volume # FlDiv(max_usd_per_order, last_close)

=============================================================================
